---- MODULE Spec2Model ----
(***************************************************************************)
(* A model of the FRACTRAN interpreter of jgalilee/fractran: the Program   *)
(* type with NewBoundProgram, NewProgram, Step, Run and Debug.  The         *)
(* repository holds the interpreter twice: package fractran (the package   *)
(* the README and cmd/fractran use) and the older package lang (used by    *)
(* cli.go).  Step is the same in both; NewBoundProgram, Run and Debug       *)
(* differ, and the model follows both, selected by pkg.  The Parser of the *)
(* two packages and the two command-line programs (cmd/fractran/main.go    *)
(* over package fractran, cli.go over package lang) are modelled too.      *)
(***************************************************************************)
EXTENDS Integers, Sequences, FiniteSets, TLC

VARIABLES
    pkg,    \* which package's Program this is: "fractran" or "lang"
    pc,     \* "none": nothing constructed yet; "rejected": the constructor
            \* returned an error and no Program; "ready": a Program, no
            \* call in progress; "panic": a call panicked; "hung": a call
            \* loops for ever; "running": a call still going on at MaxSteps
    prog,   \* the Program object: Last, Steps, Bound, n, instrs
    pre,    \* the Program object as it was when the last call began
    call,   \* the last call: op and its arguments
    ret,    \* what the last call returned
    out,    \* the lines the last call wrote to its io.Writer
    obs,    \* observations accumulated over the calls on this Program
    src,    \* the program text handed to Parser.Parse: a sequence of runes
    parsed, \* what Parse returned for src
    again,  \* the text rendered from parsed and what Parse returned for it
    cli,    \* a run of the command-line program: its arguments and its exit
    held    \* the *big.Int a Step call returned, as its caller still holds it

front == <<src, parsed, again, cli>>
vars ==
    <<pkg, pc, prog, pre, call, ret, out, obs, src, parsed, again, cli, held>>

----------------------------------------------------------------------------
(* Bounds of the model. *)

\* Steps is capped: a call that would go on past MaxSteps is left "running".
MaxSteps == 4
\* Seeds passed to Run range over -1..MaxSeed.
MaxSeed == 2
\* Instruction lists have at most MaxLen entries (Conway's program aside).
MaxLen == 2

----------------------------------------------------------------------------
(* math/big.Rat as the code uses it: a fraction kept in lowest terms with a *)
(* positive denominator; a *big.Rat may also be the nil pointer.            *)

Abs(a) == IF a < 0 THEN -a ELSE a

RECURSIVE GCD(_, _)
GCD(a, b) == IF b = 0 THEN a ELSE GCD(b, a % b)

\* big.NewRat(a, b), b # 0: the fraction a/b normalised.
NewRat(a, b) ==
    LET s == IF b < 0 THEN -1 ELSE 1
        g == GCD(Abs(a), Abs(b))
    IN  [nil |-> FALSE, num |-> (s * a) \div g, den |-> (s * b) \div g]

\* The nil *big.Rat: the value of p.n before any seed is assigned.
NilRat == [nil |-> TRUE, num |-> 0, den |-> 1]

\* A big.Int has no fixed width.  A numerator that began above
\* math.MaxInt64 is held as its decimal numeral, a sequence of runes with a
\* "-" in front when negative, in the field wide for the field num; the
\* denominator of such a fraction is small.
DigitRunes == <<"0", "1", "2", "3", "4", "5", "6", "7", "8", "9">>
DigitOf(c) == (CHOOSE i \in 1..10 : DigitRunes[i] = c) - 1

IsWide(x) == "wide" \in DOMAIN x

RECURSIVE StripZeros(_)
StripZeros(d) ==
    IF Len(d) > 1 /\ d[1] = "0" THEN StripZeros(Tail(d)) ELSE d

\* The decimal digits of n >= 0.
RECURSIVE Digits(_)
Digits(n) ==
    IF n < 10 THEN <<DigitRunes[n + 1]>>
    ELSE Digits(n \div 10) \o <<DigitRunes[(n % 10) + 1]>>

\* The digits of d * k + c, for a run of digits d and small k, c >= 0
\* (with leading zeros when k is 0).
RECURSIVE TimesDigits(_, _, _)
TimesDigits(d, k, c) ==
    IF d = <<>> THEN (IF c = 0 THEN <<>> ELSE Digits(c))
    ELSE TimesDigits(SubSeq(d, 1, Len(d) - 1), k,
                     (DigitOf(d[Len(d)]) * k + c) \div 10)
             \o <<DigitRunes[((DigitOf(d[Len(d)]) * k + c) % 10) + 1]>>

\* (r * 10^Len(d) + d) % m, for a run of digits d and small m > 0.
RECURSIVE ModDigits(_, _, _)
ModDigits(d, m, r) ==
    IF d = <<>> THEN r
    ELSE ModDigits(Tail(d), m, (r * 10 + DigitOf(d[1])) % m)

\* The digits q followed by those of (r * 10^Len(d) + d) \div g, by long
\* division, for small g > 0.
RECURSIVE DivDigits(_, _, _, _)
DivDigits(d, g, r, q) ==
    IF d = <<>> THEN q
    ELSE DivDigits(Tail(d), g, (r * 10 + DigitOf(d[1])) % g,
                   Append(q, DigitRunes[((r * 10 + DigitOf(d[1])) \div g) + 1]))

\* The numeral of a magnitude and a sign; zero has no sign.
Signed(neg, mag) == IF neg /\ mag # <<"0">> THEN <<"-">> \o mag ELSE mag

\* The fraction (+/-)mag/d in lowest terms, g being the greatest common
\* divisor of the two.
WideRat(neg, mag, d, g) ==
    [nil |-> FALSE,
     wide |-> Signed(neg, StripZeros(DivDigits(mag, g, 0, <<>>))),
     den |-> d \div g]
WideReduce(neg, mag, d) == WideRat(neg, mag, d, GCD(d, ModDigits(mag, d, 0)))

\* tmp.Mul(x, y) for x with a wide numerator.
MulWide(x, y) ==
    WideReduce((x.wide[1] = "-") # (y.num < 0),
               StripZeros(TimesDigits(IF x.wide[1] = "-" THEN Tail(x.wide)
                                      ELSE x.wide, Abs(y.num), 0)),
               x.den * y.den)

\* A Mul that multiplies numerators and denominators and does not reduce.
MulUnreduced(x, y) ==
    [nil |-> FALSE, num |-> x.num * y.num, den |-> x.den * y.den]

\* tmp.Mul(x, y): the product, normalised.
Mul(x, y) ==
    IF IsWide(x) THEN MulWide(x, y)
    ELSE NewRat(x.num * y.num, x.den * y.den)

\* A test for an integer that every fraction passes.
IsIntAny(x) == ~x.nil

\* x.IsInt(): the denominator in lowest terms is 1.
IsInt(x) == x.den = 1

\* x.Sign(): -1, 0 or +1.
Sign(x) == IF x.num < 0 THEN -1 ELSE IF x.num = 0 THEN 0 ELSE 1

\* x.Num(): the numerator.
Num(x) == IF IsWide(x) THEN x.wide ELSE x.num

----------------------------------------------------------------------------
(* float64 as the code uses it for Bound: a finite value num/den, +Inf,    *)
(* -Inf or NaN.                                                            *)

Fin(a, d) == [k |-> "fin", num |-> a, den |-> d]
PosInf == [k |-> "pinf", num |-> 0, den |-> 1]
NegInf == [k |-> "ninf", num |-> 0, den |-> 1]
NaN == [k |-> "nan", num |-> 0, den |-> 1]

\* The loop condition written with >= for >.
BoundGe(b, s) ==
    CASE b.k = "pinf" -> TRUE
      [] b.k = "fin" -> b.num >= s * b.den
      [] OTHER -> FALSE

\* p.Bound > float64(p.Steps)
BoundGt(b, s) ==
    CASE b.k = "pinf" -> TRUE
      [] b.k = "fin" -> b.num > s * b.den
      [] OTHER -> FALSE

\* b <= 0 (false of NaN)
LeqZero(b) == b.k = "ninf" \/ (b.k = "fin" /\ b.num <= 0)

\* b > 0 (false of NaN)
GtZero(b) == b.k = "pinf" \/ (b.k = "fin" /\ b.num > 0)

\* math.IsInf(b, -1)
IsNegInf(b) == b.k = "ninf"

----------------------------------------------------------------------------
(* The inputs. *)

Pkgs == {"fractran", "lang"}

\* Fractions a caller may hand to NewBoundProgram, among them zero and a
\* negative one.
Fracs == {NewRat(1, 2), NewRat(2, 1), NewRat(1, 3),
          NewRat(0, 1), NewRat(-1, 2)}

\* Conway's prime generator, primeProgram of the tests.
ConwayPrimes ==
    << NewRat(17, 91), NewRat(78, 85), NewRat(19, 51), NewRat(23, 38),
       NewRat(29, 33), NewRat(77, 29), NewRat(95, 23), NewRat(77, 19),
       NewRat(1, 17), NewRat(11, 13), NewRat(13, 11), NewRat(15, 14),
       NewRat(15, 2), NewRat(55, 1) >>

InstrInputs ==
    UNION {[1..k -> Fracs] : k \in 0..MaxLen} \cup {ConwayPrimes}

\* Bounds a caller may hand to NewBoundProgram: float64 values.
BoundInputs ==
    {NegInf, Fin(-1, 1), Fin(0, 1), Fin(5, 2), Fin(3, 1), PosInf, NaN}

SeedInputs == (-1)..MaxSeed

----------------------------------------------------------------------------
(* The Program type and its operations. *)

\* The zero Program, standing for "no Program" while pc is "none" or
\* "rejected".
NoProgram ==
    [Last |-> -1, Steps |-> 0, Bound |-> Fin(0, 1), n |-> NilRat,
     instrs |-> <<>>]

NoCall == [op |-> "none", seed |-> 0, instrs |-> <<>>, bound |-> Fin(0, 1)]
NoRet == [err |-> "nil", hasVal |-> FALSE, val |-> 0, calls |-> 0]
NoObs == [emitted |-> 0, haltSeen |-> FALSE, afterHalt |-> FALSE,
          haltSeed |-> FALSE, afterHaltSeed |-> FALSE]

\* The bound check of NewBoundProgram in package fractran:
\* math.IsInf(b, -1) || b <= 0.
BadBoundFractran(b) == IsNegInf(b) \/ LeqZero(b)

\* The bound check of NewBoundProgram in package lang:
\* math.IsInf(b, -1) && (b > 0).
BadBoundLang(b) == IsNegInf(b) /\ GtZero(b)

BadBound(pk, b) ==
    IF pk = "fractran" THEN BadBoundFractran(b) ELSE BadBoundLang(b)

\* An instruction check that tests Sign() < 0 and lets zero through.
BadInstrNegativeOnly(is, j) == \E i \in j..Len(is) : Sign(is[i]) < 0

\* The instruction check of NewBoundProgram: the loop returns an error at
\* the first i with i.Sign() <= 0.
RECURSIVE BadInstr(_, _)
BadInstr(is, j) ==
    IF j > Len(is) THEN FALSE
    ELSE IF Sign(is[j]) <= 0 THEN TRUE
    ELSE BadInstr(is, j + 1)

\* The scan of Step: the first index j (from 1) whose product with n is an
\* integer, or 0 when the loop runs off the end.
RECURSIVE Scan(_, _)
Scan(p, j) ==
    IF j > Len(p.instrs) THEN 0
    ELSE IF IsInt(Mul(p.n, p.instrs[j])) THEN j
    ELSE Scan(p, j + 1)

\* A first step that returns p.n.Denom() for p.n.Num().
StepFirstReturnsDenom(p) ==
    IF p.n.nil
    THEN [prog |-> [p EXCEPT !.Steps = 1], err |-> "panic",
          hasVal |-> FALSE, val |-> 0]
    ELSE [prog |-> [p EXCEPT !.Steps = 1], err |-> "nil",
          hasVal |-> TRUE, val |-> p.n.den]

\* The first branch of Step (Steps == 0): p.Steps++, then p.n.Num(), which
\* panics on a nil p.n.
StepFirst(p) ==
    IF p.n.nil
    THEN [prog |-> [p EXCEPT !.Steps = 1], err |-> "panic",
          hasVal |-> FALSE, val |-> 0]
    ELSE [prog |-> [p EXCEPT !.Steps = 1], err |-> "nil",
          hasVal |-> TRUE, val |-> Num(p.n)]

\* A Halt that also empties the instruction list.
StepHaltClears(p) ==
    [prog |-> [p EXCEPT !.instrs = <<>>], err |-> "Halt", hasVal |-> FALSE,
     val |-> 0]

\* A Halt that also rewinds the Program for its next run.
StepHaltRewinds(p) ==
    [prog |-> [p EXCEPT !.Steps = 0], err |-> "Halt", hasVal |-> FALSE,
     val |-> 0]

\* The end of Step, when the loop found no instruction: return nil, Halt.
StepHalt(p) == [prog |-> p, err |-> "Halt", hasVal |-> FALSE, val |-> 0]

\* Program.Step: the Program after the call, what it returned (err, and a
\* value when hasVal), or a panic on a nil p.n.
Step(p) ==
    IF p.Steps = 0
    THEN StepFirst(p)
    ELSE IF p.n.nil /\ Len(p.instrs) > 0
         THEN [prog |-> p, err |-> "panic", hasVal |-> FALSE, val |-> 0]
         ELSE LET j == Scan(p, 1) IN
              IF j = 0
              THEN StepHalt(p)
              ELSE LET tmp == Mul(p.n, p.instrs[j])
                       q == [p EXCEPT !.Last = j - 1, !.n = tmp,
                                      !.Steps = p.Steps + 1]
                   IN  [prog |-> q, err |-> "nil", hasVal |-> TRUE,
                        val |-> Num(q.n)]

\* A line of Run: the value. A line of Debug: the value and the indexes
\* (from 0) of the instructions written in brackets.
RunLine(v) == [v |-> v, dbg |-> FALSE, br |-> {}, blank |-> FALSE]
DebugLine(v, p) ==
    [v |-> v, dbg |-> TRUE,
     br |-> {j \in 0..(Len(p.instrs) - 1) : p.Last = j}, blank |-> FALSE]
\* A line with nothing before its newline.
BlankLine == [v |-> 0, dbg |-> TRUE, br |-> {}, blank |-> TRUE]
\* The lines of o that carry a value.
ValueLines(o) == SelectSeq(o, LAMBDA l : ~l.blank)

\* What the loop does when Step returns Halt. Package fractran: Run returns
\* nil and Debug breaks out of the loop and returns nil.
OnHaltFractran(dbg) == "nil"

\* Package lang: Run returns the Halt error; Debug writes an empty line and
\* goes round the loop again, to the same Halt, for ever.
OnHaltLang(dbg) == IF dbg THEN "hung" ELSE "Halt"
\* What the loop writes when Step returns Halt: nothing, but for Debug of
\* package lang, whose endless empty lines the model keeps the first of.
HaltLines(pk, dbg) == IF pk = "lang" /\ dbg THEN <<BlankLine>> ELSE <<>>

\* The loop of Run and of Debug. It ends with err "nil", "Halt", "hung",
\* "panic" (Step panicked) or "running" (cut at MaxSteps).
RECURSIVE Loop(_, _, _, _, _)
Loop(pk, dbg, p, o, c) ==
    IF ~BoundGt(p.Bound, p.Steps)
    THEN [prog |-> p, out |-> o, err |-> "nil", calls |-> c, halted |-> FALSE]
    ELSE IF p.Steps >= MaxSteps
    THEN [prog |-> p, out |-> o, err |-> "running", calls |-> c,
          halted |-> FALSE]
    ELSE LET r == Step(p) IN
         CASE r.err = "Halt" ->
                [prog |-> r.prog, out |-> o \o HaltLines(pk, dbg),
                 err |-> IF pk = "fractran" THEN OnHaltFractran(dbg)
                         ELSE OnHaltLang(dbg),
                 calls |-> c + 1, halted |-> TRUE]
           [] r.err = "panic" ->
                [prog |-> r.prog, out |-> o, err |-> "panic",
                 calls |-> c + 1, halted |-> FALSE]
           [] OTHER ->
                Loop(pk, dbg, r.prog,
                     Append(o, IF dbg THEN DebugLine(r.val, r.prog)
                               ELSE RunLine(r.val)),
                     c + 1)

\* A Run that assigns p.n before it validates the seed.
RunAssignsFirst(pk, p, seed) ==
    LET q == [p EXCEPT !.n = NewRat(seed, 1)] IN
    IF seed <= 0
    THEN [prog |-> q, out |-> <<>>, err |-> "error", calls |-> 0,
          halted |-> FALSE]
    ELSE Loop(pk, FALSE, q, <<>>, 0)

\* Program.Run(out, n)
Run(pk, p, seed) ==
    IF seed <= 0
    THEN [prog |-> p, out |-> <<>>, err |-> "error", calls |-> 0,
          halted |-> FALSE]
    ELSE Loop(pk, FALSE, [p EXCEPT !.n = NewRat(seed, 1)], <<>>, 0)

\* Program.Run(out, n) for an int64 n written as its numeral: math.MinInt64
\* or math.MaxInt64.
RunWide(pk, p, seed) ==
    IF seed[1] = "-" \/ seed = <<"0">>
    THEN [prog |-> p, out |-> <<>>, err |-> "error", calls |-> 0,
          halted |-> FALSE]
    ELSE Loop(pk, FALSE,
              [p EXCEPT !.n = [nil |-> FALSE, wide |-> seed, den |-> 1]],
              <<>>, 0)

\* Program.Debug(out)
Debug(pk, p) == Loop(pk, TRUE, p, <<>>, 0)

\* Where a call leaves the caller.
After(err) ==
    IF err \in {"panic", "hung", "running"} THEN err ELSE "ready"

\* The observations after a call whose Step calls returned nv values and
\* then, when halted, Halt; reseed: the call assigned p.n before its first
\* Step; emits: the call writes the values (Run, Debug).
\*   emitted        values written by Run and Debug calls so far
\*   haltSeen       some Step call has returned Halt
\*   afterHalt      some Step call returned a value after one returned Halt
\*   haltSeed       some Step call has returned Halt since p.n was assigned
\*   afterHaltSeed  some Step call returned a value after one returned Halt,
\*                  with no assignment to p.n in between
Observe(o, nv, halted, reseed, emits) ==
    LET hs == IF reseed THEN FALSE ELSE o.haltSeed IN
    [o EXCEPT !.emitted = o.emitted + (IF emits THEN nv ELSE 0),
              !.haltSeen = o.haltSeen \/ halted,
              !.afterHalt = o.afterHalt \/ (o.haltSeen /\ nv > 0),
              !.haltSeed = hs \/ halted,
              !.afterHaltSeed = o.afterHaltSeed \/ (hs /\ nv > 0)]

----------------------------------------------------------------------------
(* The Parser.  A program text is a sequence of runes, each written as a   *)
(* string; a parse ends with err "nil", "error" (an error is returned) or  *)
(* "panic" (the call does not return).                                     *)

\* Program texts have at most MaxSrc runes (the texts of SrcTests aside).
MaxSrc == 4

AsciiDigits == {DigitRunes[i] : i \in 1..Len(DigitRunes)}
\* U+0663 ARABIC-INDIC DIGIT THREE, a digit to unicode.IsDigit only.
ArabicThree == "u0663"
\* The rune a Parser holds before it has read one.
NoRune == "nul"

\* unicode.IsDigit(r)
IsDigit(c) == c \in AsciiDigits \cup {ArabicThree}

\* The switch of Parser.next: the symbol of the rune read.
Symbol(c) ==
    IF c = "," THEN "comma"
    ELSE IF c = "/" THEN "slash"
    ELSE IF IsDigit(c) THEN "digit"
    ELSE "done"

\* new(Parser) with the reader of Parse at the first rune of the text.
NewParser == [pos |-> 1, sym |-> "comma", cur |-> NoRune, last |-> NoRune]

\* Parser.next()
ParserNext(ps, s) ==
    IF ps.pos > Len(s)
    THEN [ps EXCEPT !.last = ps.cur, !.cur = NoRune, !.sym = "done"]
    ELSE [pos |-> ps.pos + 1, sym |-> Symbol(s[ps.pos]), cur |-> s[ps.pos],
          last |-> ps.cur]

\* The value of a run of ASCII digits.
RECURSIVE DigitsVal(_)
DigitsVal(d) ==
    IF d = <<>> THEN 0
    ELSE 10 * DigitsVal(SubSeq(d, 1, Len(d) - 1)) + DigitOf(d[Len(d)])

\* math.MaxInt64 in decimal: 9223372036854775807.
MaxInt64Digits ==
    <<"9", "2", "2", "3", "3", "7", "2", "0", "3", "6", "8", "5", "4", "7",
      "7", "5", "8", "0", "7">>
\* The magnitude of math.MinInt64 in decimal: 9223372036854775808.
MinInt64Digits ==
    <<"9", "2", "2", "3", "3", "7", "2", "0", "3", "6", "8", "5", "4", "7",
      "7", "5", "8", "0", "8">>

\* d > e for two runs of digits of the same length.
DigitsGt(d, e) ==
    \E i \in 1..Len(d) :
        /\ \A k \in 1..(i - 1) : d[k] = e[k]
        /\ DigitOf(d[i]) > DigitOf(e[i])

\* The run of digits d is a number above lim, a run of digits with no
\* leading zero.
OutOfRange(d, lim) ==
    LET z == StripZeros(d) IN
    \/ Len(z) > Len(lim)
    \/ Len(z) = Len(lim) /\ DigitsGt(z, lim)

\* math.MaxUint64 in decimal: 18446744073709551615.
MaxUint64Digits ==
    <<"1", "8", "4", "4", "6", "7", "4", "4", "0", "7", "3", "7", "0", "9",
      "5", "5", "1", "6", "1", "5">>

\* The loop of strconv.ParseUint(d, 10, 64) from the i-th rune on: the runes
\* are read from left to right, and the loop returns a syntax error at a
\* rune outside 0..9 and a range error at the digit with which the number
\* read so far exceeds math.MaxUint64, whichever comes first.
RECURSIVE ParseUint(_, _)
ParseUint(d, i) ==
    IF i > Len(d) THEN "nil"
    ELSE IF d[i] \notin AsciiDigits THEN "syntax"
    ELSE IF OutOfRange(SubSeq(d, 1, i), MaxUint64Digits) THEN "range"
    ELSE ParseUint(d, i + 1)

\* The end of strconv.ParseInt, e being what ParseUint returned for the
\* digits d: a syntax error comes with 0; a range error, of ParseUint or
\* for a number below math.MinInt64 or above math.MaxInt64, comes with the
\* nearest int64, written as its numeral.
ParseSigned(neg, d, e) ==
    IF e = "syntax" THEN [err |-> "syntax", val |-> 0]
    ELSE IF e = "range"
            \/ OutOfRange(d, IF neg THEN MinInt64Digits ELSE MaxInt64Digits)
    THEN [err |-> "range",
          val |-> IF neg THEN <<"-">> \o MinInt64Digits ELSE MaxInt64Digits]
    ELSE [err |-> "nil", val |-> IF neg THEN -DigitsVal(d) ELSE DigitsVal(d)]

\* strconv.ParseInt from the sign on: a syntax error for no digits at all,
\* then ParseUint.
ParseDigits(neg, d) ==
    IF d = <<>> THEN [err |-> "syntax", val |-> 0]
    ELSE ParseSigned(neg, d, ParseUint(d, 1))

\* strconv.ParseInt(s, 10, 64): an optional sign, then digits.
ParseInt(s) ==
    IF s # <<>> /\ s[1] \in {"+", "-"}
    THEN ParseDigits(s[1] = "-", Tail(s))
    ELSE ParseDigits(FALSE, s)

\* for p.accept(digit) { buff.WriteRune(p.lastRune) }
RECURSIVE AcceptDigits(_, _, _)
AcceptDigits(ps, s, buff) ==
    IF ps.sym = "digit"
    THEN LET q == ParserNext(ps, s) IN AcceptDigits(q, s, Append(buff, q.last))
    ELSE [ps |-> ps, buff |-> buff]

\* The end of Parser.integer: the digits read, a, are handed to ParseInt.
IntegerResult(ps, v) == [ps |-> ps, err |-> v.err, val |-> v.val]
IntegerOf(a) == IntegerResult(a.ps, ParseInt(a.buff))

\* Parser.integer()
ParserInteger(ps, s) ==
    IF ps.sym # "digit"
    THEN [ps |-> ps, err |-> "error", val |-> -1]
    ELSE IntegerOf(AcceptDigits(ps, s, <<>>))

\* The end of Parser.fraction, the denominator read: big.NewRat(num, den),
\* which panics with a division by zero when den is 0.
FractionOf(num, den) ==
    IF den.err # "nil"
    THEN [ps |-> den.ps, err |-> "error", rat |-> NilRat]
    ELSE IF den.val = 0
    THEN [ps |-> den.ps, err |-> "panic", rat |-> NilRat]
    ELSE [ps |-> den.ps, err |-> "nil", rat |-> NewRat(num.val, den.val)]

\* Parser.fraction() from the numerator read on: expect(slash), next(),
\* integer().
FractionAfter(num, s) ==
    IF num.err # "nil" THEN [ps |-> num.ps, err |-> "error", rat |-> NilRat]
    ELSE IF num.ps.sym # "slash"
    THEN [ps |-> num.ps, err |-> "error", rat |-> NilRat]
    ELSE FractionOf(num, ParserInteger(ParserNext(num.ps, s), s))

\* Parser.fraction()
ParserFraction(ps, s) == FractionAfter(ParserInteger(ps, s), s)

\* The two loops of Parser.program: the outer one runs until the current
\* symbol is done; the inner one, entered after a fraction (inner), accepts
\* a comma and reads the next fraction.  ProgramAppend is the part of the
\* loop body after fraction() has returned f.
RECURSIVE ProgramLoop(_, _, _, _)
RECURSIVE ProgramAppend(_, _, _)
ProgramLoop(ps, s, instrs, inner) ==
    IF ps.sym = "done" THEN [err |-> "nil", instrs |-> instrs]
    ELSE ProgramAppend(
             ParserFraction(IF inner /\ ps.sym = "comma"
                            THEN ParserNext(ps, s) ELSE ps, s),
             s, instrs)
ProgramAppend(f, s, instrs) ==
    IF f.err # "nil" THEN [err |-> f.err, instrs |-> <<>>]
    ELSE ProgramLoop(f.ps, s, Append(instrs, f.rat), TRUE)

\* Parser.program() of package fractran, which rejects a text whose first
\* symbol is done.
ProgramFractran(s) ==
    LET ps == ParserNext(NewParser, s) IN
    IF ps.sym = "done" THEN [err |-> "error", instrs |-> <<>>]
    ELSE ProgramLoop(ps, s, <<>>, FALSE)

\* Parser.program() of package lang, which has no such test.
ProgramLang(s) == ProgramLoop(ParserNext(NewParser, s), s, <<>>, FALSE)

\* Parser.Parse(src)
Parse(pk, s) == IF pk = "fractran" THEN ProgramFractran(s) ELSE ProgramLang(s)

\* A rendering that writes an integer without its denominator, as
\* big.Rat.RatString does.
RenderRatShort(x) ==
    IF x.den = 1 THEN Digits(x.num)
    ELSE Digits(x.num) \o <<"/">> \o Digits(x.den)

\* The %v of a *big.Rat in Debug, which is big.Rat.String(): "a/b" in lowest
\* terms, also when b is 1.
RenderRat(x) ==
    (IF x.num < 0 THEN <<"-">> ELSE <<>>)
        \o Digits(Abs(x.num)) \o <<"/">> \o Digits(x.den)

\* The texts TestParser rejects.
SrcInvalidTests ==
    {<<>>,
     <<"1", "/", "/", "2">>,
     <<"1", "/">>,
     <<"/", "2">>,
     <<"a", "/", "b">>,
     <<"1", "/", "2", ",">>,
     <<"1", "/", "2", ",", ",", "3", "/", "4">>,
     <<"1", "2">>,
     <<"1", "/", "2", "/">>}

\* The texts TestParser accepts: primeProgram, simpleProgram,
\* singleFraction and terminatingProgram.
SrcValidTests ==
    {<<"1", "7", "/", "9", "1", ",", "7", "8", "/", "8", "5", ",", "1", "9",
       "/", "5", "1", ",", "2", "3", "/", "3", "8", ",", "2", "9", "/", "3",
       "3", ",", "7", "7", "/", "2", "9", ",", "9", "5", "/", "2", "3", ",",
       "7", "7", "/", "1", "9", ",", "1", "/", "1", "7", ",", "1", "1", "/",
       "1", "3", ",", "1", "3", "/", "1", "1", ",", "1", "5", "/", "1", "4",
       ",", "1", "5", "/", "2", ",", "5", "5", "/", "1">>,
     <<"3", "/", "2", ",", "1", "/", "3">>,
     <<"2", "/", "1">>,
     <<"1", "/", "2", ",", "1", "/", "3">>}

\* Further texts: a space, a newline and a letter after a fraction, a zero
\* denominator, 2^63 as a numerator, a digit outside 0..9, and fractions
\* not in lowest terms.
SrcOtherTests ==
    {<<"1", "/", "2", " ">>,
     <<"1", "/", "2", "\n">>,
     <<"1", "/", "2", "x", "3", "/", "4">>,
     <<"1", "/", "0">>,
     <<"1", "/", "0", ",">>,
     <<"9", "2", "2", "3", "3", "7", "2", "0", "3", "6", "8", "5", "4", "7",
       "7", "5", "8", "0", "8", "/", "1">>,
     <<"1", "/", ArabicThree>>,
     <<"1", "0", "/", "4", ",", "0", "2", "/", "6">>}

\* The runes the texts of the model are made of.
SrcAlphabet == {"0", "1", "2", "/", ",", "x"}
SrcInputs ==
    UNION {[1..k -> SrcAlphabet] : k \in 0..MaxSrc}
        \cup SrcInvalidTests \cup SrcValidTests \cup SrcOtherTests

NoParse == [called |-> FALSE, err |-> "nil", instrs |-> <<>>]
NoAgain == [called |-> FALSE, text |-> <<>>, err |-> "nil", instrs |-> <<>>]

----------------------------------------------------------------------------
(* The command-line programs: cmd/fractran/main.go over package fractran   *)
(* and cli.go over package lang.  A run has the program text in src and    *)
(*   piped    standard input is not a terminal                             *)
(*   nargs    the number of arguments after the program's name             *)
(*   fileOK   the file named by the first argument can be opened           *)
(*   seed     what strconv.ParseInt(_, 10, 64) returns for the value       *)
(*            argument: err and val                                        *)
(* and ends with an exit status, -1 while the process has not exited.      *)

\* The decimal numeral of an integer.
Numeral(v) == IF v < 0 THEN <<"-">> \o Digits(-v) ELSE Digits(v)

\* The value arguments of the runs: the numerals of the seeds, a text that
\* is no number, twenty nines and a letter, 2^63 and -2^63 - 1.
CliArgs ==
    {Numeral(v) : v \in SeedInputs}
        \cup {<<"a", "b", "c">>,
              <<"9", "9", "9", "9", "9", "9", "9", "9", "9", "9", "9", "9",
                "9", "9", "9", "9", "9", "9", "9", "9", "x">>,
              <<"9", "2", "2", "3", "3", "7", "2", "0", "3", "6", "8", "5",
                "4", "7", "7", "5", "8", "0", "8">>,
              <<"-", "9", "2", "2", "3", "3", "7", "2", "0", "3", "6", "8",
                "5", "4", "7", "7", "5", "8", "0", "9">>}

\* What the mains read from them.
CliSeeds == {ParseInt(a) : a \in CliArgs}

\* The program texts of the runs: "1/2", "2/1", "1/2" and a newline (what
\* echo "1/2" pipes in), the empty text, "1/", "0/1" and "1/0".
CliSrcs ==
    {<<"1", "/", "2">>, <<"2", "/", "1">>, <<"1", "/", "2", "\n">>, <<>>,
     <<"1", "/">>, <<"0", "/", "1">>, <<"1", "/", "0">>}

NoCli ==
    [called |-> FALSE, piped |-> FALSE, nargs |-> 0, fileOK |-> FALSE,
     seed |-> [err |-> "syntax", val |-> 0], exit |-> -1, stdout |-> <<>>]

\* The arguments are as many as the usage asks for.
ArgsOK(piped, nargs) == (piped /\ nargs = 1) \/ (~piped /\ nargs = 2)

\* The Program NewProgram returns for instrs.
ProgramOf(is) ==
    [Last |-> -1, Steps |-> 0, Bound |-> PosInf, n |-> NilRat, instrs |-> is]

\* A process whose goroutine panics exits with status 2.
\* The end of both mains, q being what Run returned (and wrote); dropErr:
\* the error Run returned is dropped.
ExitAfterRun(q, dropErr) ==
    [exit |-> IF q.err = "running" THEN -1
              ELSE IF q.err # "nil" /\ ~dropErr THEN 1 ELSE 0,
     stdout |-> q.out]

\* Both mains from the return of Parse, r, on: a process whose goroutine
\* panics exits with status 2; an error of Parse or of NewProgram is exit
\* status 1; then Run with n, the int64 the value argument was read as.
ExitAfterParse(pk, r, n, dropErr) ==
    IF r.err = "panic" THEN [exit |-> 2, stdout |-> <<>>]
    ELSE IF r.err # "nil" THEN [exit |-> 1, stdout |-> <<>>]
    ELSE IF BadBound(pk, PosInf) \/ BadInstr(r.instrs, 1)
    THEN [exit |-> 1, stdout |-> <<>>]
    ELSE ExitAfterRun(IF n.err = "range"
                      THEN RunWide(pk, ProgramOf(r.instrs), n.val)
                      ELSE Run(pk, ProgramOf(r.instrs), n.val), dropErr)

\* main of cmd/fractran/main.go
MainFractran(piped, nargs, fileOK, seed, s) ==
    IF ~ArgsOK(piped, nargs) THEN [exit |-> 1, stdout |-> <<>>]
    ELSE IF ~piped /\ ~fileOK THEN [exit |-> 1, stdout |-> <<>>]
    ELSE IF seed.err # "nil" THEN [exit |-> 1, stdout |-> <<>>]
    ELSE ExitAfterParse("fractran", Parse("fractran", s), seed, FALSE)

\* main of cli.go: an error of findSrc or of findN is written to standard
\* error and main goes on, with the *os.File that is nil for a reader (the
\* first read fails and Parser.next panics) and with the int64 ParseInt
\* returned beside its error for n: 0 for a text that is no number,
\* math.MaxInt64 or math.MinInt64 for a number out of range; what Run returns
\* is dropped.
MainLang(piped, nargs, fileOK, seed, s) ==
    IF ~ArgsOK(piped, nargs) THEN [exit |-> 1, stdout |-> <<>>]
    ELSE IF ~piped /\ ~fileOK THEN [exit |-> 2, stdout |-> <<>>]
    ELSE ExitAfterParse("lang", Parse("lang", s), seed, TRUE)

\* What a run leaves: its arguments and what main ended with.
CliRun(piped, nargs, fileOK, seed, m) ==
    [called |-> TRUE, piped |-> piped, nargs |-> nargs, fileOK |-> fileOK,
     seed |-> seed, exit |-> m.exit, stdout |-> m.stdout]

\* The *big.Int Step returns is p.n.Num(): a pointer to the numerator
\* inside the big.Rat p.n points to, not a copy.  held is the result of the
\* first Step call made by the user of the package since p.n was last
\* assigned a big.Rat: was, the value it had when Step returned it, and
\* now, the value it has.
NoHeld == [holding |-> FALSE, was |-> 0, now |-> 0]

\* After a Step call that returned r: p.n.Set(tmp) writes the product into
\* the big.Rat p.n points to, and so into the *big.Int held.
HeldAfterStep(h, r) ==
    IF ~r.hasVal THEN h
    ELSE IF h.holding THEN [h EXCEPT !.now = Num(r.prog.n)]
    ELSE [holding |-> TRUE, was |-> r.val, now |-> r.val]

\* After the Step calls of a Debug call, which left the Program p.
HeldAfterLoop(h, p) ==
    IF h.holding THEN [h EXCEPT !.now = Num(p.n)] ELSE h

----------------------------------------------------------------------------
(* The state machine. *)

Init ==
    /\ pkg \in Pkgs
    /\ pc = "none"
    /\ prog = NoProgram
    /\ pre = NoProgram
    /\ call = NoCall
    /\ ret = NoRet
    /\ out = <<>>
    /\ obs = NoObs
    /\ src = <<>>
    /\ parsed = NoParse
    /\ again = NoAgain
    /\ cli = NoCli
    /\ held = NoHeld

\* NewBoundProgram(instrs, b)
Construct(op, is, b) ==
    /\ pc = "none"
    /\ call' = [op |-> op, seed |-> 0, instrs |-> is, bound |-> b]
    /\ pre' = NoProgram
    /\ out' = <<>>
    /\ obs' = NoObs
    /\ held' = NoHeld
    /\ IF BadBound(pkg, b) \/ BadInstr(is, 1)
       THEN /\ ret' = [err |-> "error", hasVal |-> FALSE, val |-> 0,
                       calls |-> 0]
            /\ pc' = "rejected"
            /\ UNCHANGED prog
       ELSE /\ ret' = NoRet
            /\ pc' = "ready"
            /\ prog' = [Last |-> -1, Steps |-> 0, Bound |-> b, n |-> NilRat,
                        instrs |-> is]
    /\ UNCHANGED <<pkg, front>>

NewBoundProgram ==
    \E is \in InstrInputs, b \in BoundInputs :
        Construct("NewBoundProgram", is, b)

\* NewProgram(instrs) == NewBoundProgram(instrs, math.Inf(1))
NewProgram ==
    \E is \in InstrInputs : Construct("NewProgram", is, PosInf)

\* A call of p.Step() by the user of the package.
StepCall ==
    /\ pc = "ready"
    /\ prog.Steps < MaxSteps
    /\ LET r == Step(prog) IN
       /\ prog' = r.prog
       /\ pre' = prog
       /\ call' = [NoCall EXCEPT !.op = "Step"]
       /\ ret' = [err |-> r.err, hasVal |-> r.hasVal, val |-> r.val,
                  calls |-> 1]
       /\ out' = <<>>
       /\ obs' = Observe(obs, IF r.hasVal THEN 1 ELSE 0, r.err = "Halt",
                         FALSE, FALSE)
       /\ held' = HeldAfterStep(held, r)
       /\ pc' = After(r.err)
    /\ UNCHANGED <<pkg, front>>

\* A call of p.Run(out, seed).
RunCall ==
    /\ pc = "ready"
    /\ \E seed \in SeedInputs :
         LET r == Run(pkg, prog, seed) IN
         /\ prog' = r.prog
         /\ pre' = prog
         /\ call' = [NoCall EXCEPT !.op = "Run", !.seed = seed]
         /\ ret' = [err |-> r.err, hasVal |-> FALSE, val |-> 0,
                    calls |-> r.calls]
         /\ out' = r.out
         /\ obs' = Observe(obs, Len(r.out), r.halted, seed > 0, TRUE)
         /\ held' = IF seed > 0 THEN NoHeld ELSE held
         /\ pc' = After(r.err)
    /\ UNCHANGED <<pkg, front>>

\* A call of p.Debug(out).
DebugCall ==
    /\ pc = "ready"
    /\ LET r == Debug(pkg, prog) IN
       /\ prog' = r.prog
       /\ pre' = prog
       /\ call' = [NoCall EXCEPT !.op = "Debug"]
       /\ ret' = [err |-> r.err, hasVal |-> FALSE, val |-> 0,
                  calls |-> r.calls]
       /\ out' = r.out
       /\ obs' = Observe(obs, Len(ValueLines(r.out)), r.halted, FALSE, TRUE)
       /\ held' = HeldAfterLoop(held, r.prog)
       /\ pc' = After(r.err)
    /\ UNCHANGED <<pkg, front>>

\* prog.n = big.NewRat(v, 1): the tests, inside the package, assign the
\* current value of a Program they have just constructed.
AssignN ==
    /\ pc = "ready"
    /\ prog.Steps = 0
    /\ prog.n.nil
    /\ \E v \in 1..MaxSeed :
         /\ prog' = [prog EXCEPT !.n = NewRat(v, 1)]
         /\ call' = [NoCall EXCEPT !.op = "AssignN", !.seed = v]
    /\ pre' = prog
    /\ ret' = NoRet
    /\ out' = <<>>
    /\ obs' = Observe(obs, 0, FALSE, TRUE, FALSE)
    /\ held' = NoHeld
    /\ UNCHANGED <<pkg, pc, front>>

Next ==
    \/ NewBoundProgram
    \/ NewProgram
    \/ AssignN
    \/ StepCall
    \/ RunCall
    \/ DebugCall

Spec == Init /\ [][Next]_vars

----------------------------------------------------------------------------
(* The Parser on its own: a text, Parse of it, and Parse of the text the   *)
(* fractions it returned are rendered to.                                  *)

ParseInit ==
    /\ pkg \in Pkgs
    /\ src \in SrcInputs
    /\ parsed = NoParse
    /\ again = NoAgain
    /\ cli = NoCli
    /\ held = NoHeld
    /\ pc = "none"
    /\ prog = NoProgram
    /\ pre = NoProgram
    /\ call = NoCall
    /\ ret = NoRet
    /\ out = <<>>
    /\ obs = NoObs

\* new(Parser).Parse(strings.NewReader(src))
ParseCall ==
    /\ ~parsed.called
    /\ LET r == Parse(pkg, src) IN
       parsed' = [called |-> TRUE, err |-> r.err, instrs |-> r.instrs]
    /\ UNCHANGED <<pkg, pc, prog, pre, call, ret, out, obs, src, again, cli,
                 held>>

\* The fractions of is, each rendered as Debug renders it, with commas
\* between them.
RECURSIVE RenderProgram(_)
RenderProgram(is) ==
    IF is = <<>> THEN <<>>
    ELSE IF Len(is) = 1 THEN RenderRat(is[1])
    ELSE RenderRat(is[1]) \o <<",">> \o RenderProgram(Tail(is))

\* Parse of the rendering of the fractions Parse returned.
ParseAgain ==
    /\ parsed.called
    /\ parsed.err = "nil"
    /\ ~again.called
    /\ LET t == RenderProgram(parsed.instrs)
           r == Parse(pkg, t)
       IN  again' = [called |-> TRUE, text |-> t, err |-> r.err,
                     instrs |-> r.instrs]
    /\ UNCHANGED <<pkg, pc, prog, pre, call, ret, out, obs, src, parsed, cli,
                 held>>

ParseNext ==
    \/ ParseCall
    \/ ParseAgain

ParseSpec == ParseInit /\ [][ParseNext]_vars

----------------------------------------------------------------------------
(* The command-line program on its own: one run of main.                   *)

\* Runs are given at most MaxArgs arguments.
MaxArgs == 3

CliInit ==
    /\ pkg \in Pkgs
    /\ src \in CliSrcs
    /\ parsed = NoParse
    /\ again = NoAgain
    /\ cli = NoCli
    /\ held = NoHeld
    /\ pc = "none"
    /\ prog = NoProgram
    /\ pre = NoProgram
    /\ call = NoCall
    /\ ret = NoRet
    /\ out = <<>>
    /\ obs = NoObs

\* One run of the command-line program of the package.
MainCall ==
    /\ ~cli.called
    /\ \E piped \in BOOLEAN, nargs \in 0..MaxArgs, fileOK \in BOOLEAN,
          seed \in CliSeeds :
         cli' = CliRun(piped, nargs, fileOK, seed,
                       IF pkg = "fractran"
                       THEN MainFractran(piped, nargs, fileOK, seed, src)
                       ELSE MainLang(piped, nargs, fileOK, seed, src))
    /\ UNCHANGED <<pkg, pc, prog, pre, call, ret, out, obs, src, parsed, again,
                 held>>

CliNext == MainCall

CliSpec == CliInit /\ [][CliNext]_vars

----------------------------------------------------------------------------
(* FRACTRAN's rule stated on integers, without big.Rat: the fraction f      *)
(* applies to the integer x when f.den divides x * f.num.                   *)

RefApplies(x, f) == (x * f.num) % f.den = 0
RefProduct(x, f) == (x * f.num) \div f.den

\* The smallest index of L whose fraction applies to x, or 0.
RefFirst(L, x) ==
    IF \E j \in 1..Len(L) : RefApplies(x, L[j])
    THEN CHOOSE j \in 1..Len(L) :
           /\ RefApplies(x, L[j])
           /\ \A i \in 1..(j - 1) : ~RefApplies(x, L[i])
    ELSE 0

\* x_0 = x, x_(k+1) = x_k * f_j for the smallest applicable j: at most k
\* values, ending early at the first value no fraction applies to.
RECURSIVE Trajectory(_, _, _)
Trajectory(L, x, k) ==
    IF k <= 0 THEN <<>>
    ELSE IF RefFirst(L, x) = 0 THEN <<x>>
    ELSE <<x>> \o Trajectory(L, RefProduct(x, L[RefFirst(L, x)]), k - 1)

Values(o) == [i \in 1..Len(o) |-> o[i].v]

\* A bound that is a number of values: 0, 1, 2, ... or +Inf.
IsCount(b) == b.k = "pinf" \/ (b.k = "fin" /\ b.den = 1 /\ b.num >= 0)
\* The number of values such a bound allows, +Inf cut to the model's cap.
CountOf(b) == IF b.k = "pinf" THEN MaxSteps ELSE b.num

\* s <= b, for an integer s and a float64 b (false of NaN).
LeqBound(s, b) ==
    CASE b.k = "pinf" -> TRUE
      [] b.k = "fin" -> s * b.den <= b.num
      [] OTHER -> FALSE

HasProgram == pc \notin {"none", "rejected"}
Fresh(p) == p.Steps = 0 /\ p.Last = -1
IsConstructor == call.op \in {"NewBoundProgram", "NewProgram"}

----------------------------------------------------------------------------
(* The claims. *)

\* C1: Run with a seed n > 0 on a newly constructed Program whose bound b is
\* a count writes exactly x_0 = n, x_(k+1) = x_k * f_j (j the smallest index
\* with an integer product), one value per line in order, cut off after b
\* values or at the first value no instruction applies to.
C1_RunWritesTrajectory ==
    (call.op = "Run" /\ call.seed > 0 /\ Fresh(pre) /\ IsCount(prog.Bound))
    => /\ Values(out) =
            Trajectory(prog.instrs, call.seed, CountOf(prog.Bound))
       /\ \A i \in 1..Len(out) : ~out[i].dbg

\* C1 witness: Conway's program, seed 2, bound 3 has written 2, 15, 825.
C1_Witness ==
    /\ call.op = "Run" /\ call.seed = 2 /\ Fresh(pre)
    /\ prog.instrs = ConwayPrimes /\ prog.Bound = Fin(3, 1)
    /\ Values(out) = <<2, 15, 825>>

\* C2 (as claimed): for every positive bound NewBoundProgram accepted, as
\* long as every value was produced by Run and Debug calls, the number of
\* values emitted and Steps are at most Bound.
C2_NeverPastBound ==
    (HasProgram /\ GtZero(prog.Bound) /\ prog.Steps = obs.emitted)
    => /\ LeqBound(obs.emitted, prog.Bound)
       /\ LeqBound(prog.Steps, prog.Bound)

\* C3 (as claimed): Run returns an error exactly when the seed is invalid;
\* it returns nil when the program halts and when the bound is reached.
C3_RunErrorOnlyForBadSeed ==
    (call.op = "Run" /\ pc = "ready")
    => IF call.seed <= 0 THEN ret.err = "error" ELSE ret.err = "nil"

\* C4: when Steps = 0 (and a current value is assigned), Step returns the
\* current value without applying an instruction, sets Steps to 1 and
\* leaves n and Last unchanged; Last is still -1 on a new Program.
C4_FirstStepObserves ==
    (call.op = "Step" /\ pre.Steps = 0 /\ ~pre.n.nil)
    => /\ ret.err = "nil" /\ ret.hasVal
       /\ pre.n.den = 1 /\ ret.val = pre.n.num
       /\ prog = [pre EXCEPT !.Steps = 1]
       /\ prog.Last = -1

\* C4 witness: a Step call at Steps = 0 returned the assigned value 2.
C4_Witness ==
    /\ call.op = "Step" /\ pre.Steps = 0 /\ ~pre.n.nil
    /\ ret.val = 2 /\ prog.Steps = 1 /\ Len(prog.instrs) > 0

\* C5: when Steps > 0 and some instruction applies, Step takes the smallest
\* index j whose product with n is an integer, sets n to the product, Last
\* to j, adds exactly 1 to Steps and returns the new n; and an instruction
\* counts as applicable iff the reduced denominator of its product is 1.
C5_StepAppliesFirst ==
    (call.op = "Step" /\ pre.Steps > 0 /\ ~pre.n.nil)
    => /\ pre.n.den = 1
       /\ \A j \in 1..Len(pre.instrs) :
            IsInt(Mul(pre.n, pre.instrs[j]))
            <=> RefApplies(pre.n.num, pre.instrs[j])
       /\ LET j == RefFirst(pre.instrs, pre.n.num) IN
          j # 0 =>
            /\ prog.n = NewRat(RefProduct(pre.n.num, pre.instrs[j]), 1)
            /\ prog.Last = j - 1
            /\ prog.Steps = pre.Steps + 1
            /\ ret.err = "nil" /\ ret.hasVal /\ ret.val = prog.n.num
            /\ prog.instrs = pre.instrs /\ prog.Bound = pre.Bound

\* C5 witness: a Step call skipped instruction 0, which does not apply, and
\* applied instruction 1.
C5_Witness ==
    /\ call.op = "Step" /\ pre.Steps > 0 /\ ~pre.n.nil
    /\ Len(pre.instrs) = 2 /\ prog.Last = 1 /\ pre.Last # 1
    /\ ~RefApplies(pre.n.num, pre.instrs[1])
    /\ prog.Steps = pre.Steps + 1

\* C6: when Steps > 0 and no instruction's product with n is an integer,
\* Step returns Halt and no value and leaves n, Steps and Last unchanged.
C6_StepHalts ==
    (/\ call.op = "Step" /\ pre.Steps > 0 /\ ~pre.n.nil
     /\ RefFirst(pre.instrs, pre.n.num) = 0)
    => /\ ret.err = "Halt" /\ ~ret.hasVal
       /\ prog = pre

\* C6 witness: a Step call on a Program with instructions returned Halt.
C6_Witness ==
    /\ call.op = "Step" /\ pre.Steps > 0 /\ ~pre.n.nil
    /\ Len(pre.instrs) > 0 /\ ret.err = "Halt"

\* C7 (as claimed): once a Step call has returned Halt, every later Step
\* call on that Program returns Halt.
C7_HaltStickyForEver == ~obs.afterHalt

\* C7 (amended): once a Step call has returned Halt, every later Step call
\* returns Halt for as long as no new current value is assigned.
C7_HaltStickyUntilReseed == ~obs.afterHaltSeed

\* C7 witness: a Run or Debug call on an unbounded Program returned, which
\* it does only when Step returns Halt, and a later Step call, with no new
\* seed in between, returned Halt again.
C7_Witness ==
    /\ call.op = "Step" /\ ret.err = "Halt" /\ pre = prog
    /\ prog.Bound = PosInf /\ obs.emitted > 0 /\ Len(prog.instrs) > 0
    /\ obs.haltSeed /\ ~obs.afterHaltSeed

\* C8: Run with a seed n <= 0 returns an error at once, whatever state the
\* Program is in: no Step call, no output, the Program unchanged.
C8_BadSeedRejected ==
    (call.op = "Run" /\ call.seed <= 0)
    => /\ ret.err = "error" /\ pc = "ready"
       /\ ret.calls = 0 /\ out = <<>>
       /\ prog = pre

\* C8 witness: Run with seed 0 was rejected on a Program that had already
\* taken steps.
C8_Witness ==
    /\ call.op = "Run" /\ call.seed = 0 /\ ret.err = "error"
    /\ pre.Steps > 1 /\ ~pre.n.nil

\* C9 (as claimed): NewBoundProgram rejects every zero or negative bound;
\* a Program exists only with a positive bound or +Inf.
C9_NonPositiveBoundRejected ==
    /\ (IsConstructor /\ LeqZero(call.bound))
       => (pc = "rejected" /\ ret.err = "error")
    /\ HasProgram => GtZero(prog.Bound)

\* C10: NewBoundProgram rejects an instruction list holding a zero or
\* negative fraction at any position: an error and no Program.
C10_NonPositiveInstrRejected ==
    (IsConstructor /\ \E j \in 1..Len(call.instrs) : call.instrs[j].num <= 0)
    => /\ pc = "rejected" /\ ret.err = "error"
       /\ prog = NoProgram

\* C10 witness: a list with a valid bound whose second fraction is zero,
\* after a positive first one, was rejected.
C10_Witness ==
    /\ IsConstructor /\ pc = "rejected" /\ GtZero(call.bound)
    /\ Len(call.instrs) = 2
    /\ call.instrs[1].num > 0 /\ call.instrs[2].num = 0

----------------------------------------------------------------------------
(* The grammar of program texts, stated on the text without the Parser:    *)
(*   program := fraction (',' fraction)*    fraction := integer '/' integer *)
(*   integer := digit+                      digit := '0' .. '9'            *)

GrammarRunes == AsciiDigits \cup {"/", ","}
OverGrammarRunes(s) == \A i \in 1..Len(s) : s[i] \in GrammarRunes

AllDigits(s) == Len(s) >= 1 /\ \A i \in 1..Len(s) : s[i] \in AsciiDigits
AllZeros(s) == \A i \in 1..Len(s) : s[i] = "0"

\* The index of the slash of a fraction text, or 0.
SlashOf(s) ==
    IF \E k \in 1..Len(s) : s[k] = "/"
    THEN CHOOSE k \in 1..Len(s) :
           s[k] = "/" /\ \A i \in 1..(k - 1) : s[i] # "/"
    ELSE 0
NumText(s) == SubSeq(s, 1, SlashOf(s) - 1)
DenText(s) == SubSeq(s, SlashOf(s) + 1, Len(s))
IsFractionText(s) ==
    SlashOf(s) > 0 /\ AllDigits(NumText(s)) /\ AllDigits(DenText(s))

\* The pieces of s between its commas, in order.
RECURSIVE SplitCommas(_)
SplitCommas(s) ==
    IF \E k \in 1..Len(s) : s[k] = ","
    THEN LET k == CHOOSE k \in 1..Len(s) :
                    s[k] = "," /\ \A i \in 1..(k - 1) : s[i] # ","
         IN  <<SubSeq(s, 1, k - 1)>> \o SplitCommas(SubSeq(s, k + 1, Len(s)))
    ELSE <<s>>

IsProgramText(s) ==
    \A i \in 1..Len(SplitCommas(s)) : IsFractionText(SplitCommas(s)[i])
NoZeroDenominator(s) ==
    \A i \in 1..Len(SplitCommas(s)) : ~AllZeros(DenText(SplitCommas(s)[i]))

\* The fraction x has the value the fraction text f denotes.
SameValue(x, f) ==
    ~x.nil /\ x.num * DigitsVal(DenText(f)) = DigitsVal(NumText(f)) * x.den

----------------------------------------------------------------------------
(* The claims about the Parser, under ParseSpec. *)

\* C11 (as claimed): for every text over the digits, '/' and ',' that does
\* not match the grammar, Parse returns an error and no instruction list.
C11_InvalidTextRejected ==
    (parsed.called /\ OverGrammarRunes(src) /\ ~IsProgramText(src))
    => (parsed.err = "error" /\ parsed.instrs = <<>>)

\* C12 (as claimed): Parse fails for every text in which a rune other than
\* a digit, '/' or ',' appears anywhere.
C12_ForeignRuneRejected ==
    (parsed.called /\ ~OverGrammarRunes(src)) => parsed.err = "error"

\* C13 (as claimed): for every text that matches the grammar, Parse returns
\* no error and one fraction per fraction of the text, in the order of the
\* text, each with the value numerator / denominator of its text.
C13_ValidTextParsed ==
    (parsed.called /\ IsProgramText(src))
    => /\ parsed.err = "nil"
       /\ Len(parsed.instrs) = Len(SplitCommas(src))
       /\ \A i \in 1..Len(parsed.instrs) :
            SameValue(parsed.instrs[i], SplitCommas(src)[i])

\* C14: the fractions Parse returned, each rendered as numerator/denominator
\* the way Debug renders it and joined with commas, parse without an error
\* to a list of the same length whose fractions are pairwise equal to them.
C14_RoundTrip ==
    again.called
    => /\ again.err = "nil"
       /\ Len(again.instrs) = Len(parsed.instrs)
       /\ \A i \in 1..Len(parsed.instrs) : again.instrs[i] = parsed.instrs[i]

\* Two fractions, written not in lowest terms, were parsed, rendered to a
\* different text and parsed again.
C14_Witness ==
    /\ again.called
    /\ Len(parsed.instrs) = 2
    /\ again.text # src
    /\ again.instrs = parsed.instrs

\* C15 (as claimed): a text that matches the grammar (no denominator being
\* zero) is never rejected, however long its integers are.
C15_AnyLengthAccepted ==
    (parsed.called /\ IsProgramText(src) /\ NoZeroDenominator(src))
    => parsed.err = "nil"

----------------------------------------------------------------------------
(* The claims about Debug, termination and the bound in Step, under Spec.  *)

\* The index (from 0) of the instruction that turns the value x into the
\* next one.
ProducerOf(L, x) == RefFirst(L, x) - 1

\* C16 (as claimed): every line Debug writes carries a value and has in
\* brackets exactly the instruction that produced the value: none on the
\* line of the initial observation.
C16_DebugBrackets ==
    (call.op = "Debug" /\ ~pre.n.nil)
    => \A i \in 1..Len(out) :
         /\ ~out[i].blank
         /\ out[i].br =
              IF i = 1
              THEN IF pre.Steps = 0 THEN {}
                   ELSE {ProducerOf(pre.instrs, Num(pre.n))}
              ELSE {ProducerOf(pre.instrs, out[i - 1].v)}

\* C17 (as claimed): Debug on a Program with Steps = 0 and the current value
\* seed writes one line per value Run writes for the same instructions,
\* seed and bound, with the same values in the same order, and no other
\* line.
C17_DebugAsRun ==
    (call.op = "Debug" /\ pre.Steps = 0 /\ ~pre.n.nil /\ Num(pre.n) > 0)
    => /\ \A i \in 1..Len(out) : ~out[i].blank
       /\ Values(out) =
            Values(Run(pkg, [pre EXCEPT !.n = NilRat], Num(pre.n)).out)

\* C18 (as claimed): a call of Run or Debug on a Program with a finite bound
\* returns.
C18_FiniteBoundReturns ==
    (call.op \in {"Run", "Debug"} /\ prog.Bound.k = "fin")
    => pc \notin {"hung", "running"}

\* C20 (as claimed): a Step call made when Steps >= Bound returns Halt and
\* leaves the Program as it was.
C20_StepHaltsAtBound ==
    (/\ call.op = "Step"
     /\ GtZero(pre.Bound)
     /\ pre.Bound.k = "fin"
     /\ pre.Steps * pre.Bound.den >= pre.Bound.num)
    => (ret.err = "Halt" /\ prog = pre)

----------------------------------------------------------------------------
(* The claim about the command-line programs, under CliSpec. *)

\* What a run was given makes it an error: the number of arguments, a file
\* that cannot be opened, a seed that is no integer or not positive, a text
\* Parse returns an error for (or panics on), an instruction list
\* NewProgram rejects.
CliError ==
    \/ ~ArgsOK(cli.piped, cli.nargs)
    \/ ~cli.piped /\ ~cli.fileOK
    \/ cli.seed.err # "nil"
    \/ cli.seed.val <= 0
    \/ Parse(pkg, src).err # "nil"
    \/ BadInstr(Parse(pkg, src).instrs, 1)

\* C19 (as claimed): the command-line program exits with a non-zero status
\* on every such error, and with status zero when there is none and the
\* run has ended.
C19_ExitStatus ==
    cli.called
    => /\ CliError => cli.exit > 0
       /\ (~CliError /\ cli.exit # -1) => cli.exit = 0

----------------------------------------------------------------------------
(* The claims about the seed, n, Steps and the frame of the calls, under   *)
(* Spec.                                                                   *)

\* C21 (as claimed): every Run call with a positive seed that writes a line
\* writes the seed as its first line, whatever the Program went through
\* before.
C21_SeedFirstAlways ==
    (call.op = "Run" /\ call.seed > 0 /\ Len(out) > 0)
    => out[1].v = call.seed

\* C21: a Run call with a positive seed that writes a line writes the seed
\* as its first line when the Program had Steps = 0; on a Program with
\* Steps > 0 its first line is the seed times the first instruction that
\* applies to it.
C21_SeedFirstWhenFresh ==
    (call.op = "Run" /\ call.seed > 0 /\ Len(out) > 0)
    => out[1].v =
         IF pre.Steps = 0 THEN call.seed
         ELSE RefProduct(call.seed,
                         pre.instrs[RefFirst(pre.instrs, call.seed)])

\* C21 witness: Run with seed 2 on a Program with Steps = 0 wrote 2 and at
\* least one more value.
C21_Witness ==
    /\ call.op = "Run" /\ call.seed = 2 /\ pre.Steps = 0
    /\ Len(out) >= 2 /\ out[1].v = 2

\* C22: whenever the Program has a current value, it is a strictly positive
\* integer: after a Run assigned a positive seed, no sequence of Step, Run
\* and Debug calls over the (positive) instructions makes n zero, negative
\* or a proper fraction.
C22_PositiveInteger ==
    (HasProgram /\ ~prog.n.nil) => (prog.n.den = 1 /\ prog.n.num > 0)

\* C22 witness: a Run call on a Program that had been stepped before
\* assigned the seed 2, and the Step calls it made left a larger n.
C22_Witness ==
    /\ call.op = "Run" /\ call.seed = 2 /\ pre.Steps > 0
    /\ Len(out) >= 1 /\ prog.n.num > 2 /\ prog.n.den = 1

\* C23: Steps is 0 after construction, is one more after a Step call that
\* returned a value, is unchanged by a Step call that returned Halt and by
\* a Run call that rejected its seed, is never less after a call than
\* before it, and after a Run call on a new Program equals the number of
\* lines written.
C23_StepsCount ==
    /\ (IsConstructor /\ pc = "ready") => prog.Steps = 0
    /\ (call.op = "Step" /\ ret.hasVal) => prog.Steps = pre.Steps + 1
    /\ (call.op = "Step" /\ ret.err = "Halt") => prog.Steps = pre.Steps
    /\ (call.op = "Run" /\ ret.err = "error") => prog.Steps = pre.Steps
    /\ (call.op \in {"Step", "Run", "Debug"}) => prog.Steps >= pre.Steps
    /\ (call.op = "Run" /\ Fresh(pre)) => prog.Steps = Len(out)

\* C23 witness: a Run call on a new Program wrote three lines and left
\* Steps = 3.
C23_Witness ==
    /\ call.op = "Run" /\ Fresh(pre)
    /\ Len(out) = 3 /\ prog.Steps = 3

\* C24: no step of the Program's life after its construction changes Bound
\* or the instruction list (its length, its order, the value of any
\* instruction).
C24_BoundAndInstrsKept ==
    [][pc = "ready" => (prog'.Bound = prog.Bound /\ prog'.instrs = prog.instrs)]_vars

\* C24 witness: a Step call applied the second of two instructions and
\* changed n, Steps and Last.
C24_Witness ==
    /\ call.op = "Step" /\ ret.hasVal /\ pre.Steps > 0
    /\ Len(prog.instrs) = 2 /\ prog.Last = 1
    /\ prog.n # pre.n /\ prog.Last # pre.Last

\* C26 (as claimed): a Step or Debug call never fails on an unset current
\* value.
C26_StepDebugSafe ==
    (call.op \in {"Step", "Debug"} /\ pre.n.nil) => pc # "panic"

----------------------------------------------------------------------------
(* The claim about a zero denominator, under ParseSpec. *)

\* C25 (as claimed): for every text Parse returns an error or an
\* instruction list; it never aborts.
C25_ParseReturns == parsed.called => parsed.err \in {"nil", "error"}

----------------------------------------------------------------------------
(* The claim about the value a caller holds, under Spec. *)

\* C27 (as claimed): the value a Step call returned is, as long as its
\* caller holds it, the value it was when Step returned it.
C27_ReturnedValueKept == held.holding => held.now = held.was

====
